---- MODULE Spec2Model ----
(***************************************************************************)
(* Model of the man-page flashcard generator                               *)
(* (src/ai-flashcards-from-manpage-v3.py): the section splitter            *)
(* split_into_sections, and generate_flashcards with its proportional     *)
(* quota computation and its Question:/Answer: line parser.                *)
(*                                                                         *)
(* Text is a sequence of characters over a small alphabet: two letters,    *)
(* the line break and the blank.  The size of a text, count_tokens, is     *)
(* taken to be its character count (the size unit is pluggable; the        *)
(* character count is the instance used here).                             *)
(***************************************************************************)
EXTENDS Integers, Sequences, FiniteSets, TLC

\* ------------------------------------------------------------------ bounds
\* longest document
MaxLen == 6
\* largest positive token limit given on the command line
MaxBudget == 3
\* cap on the number of emitted sections (only reached when the while loop
\* of split_into_sections does not terminate)
MaxSections == 8

\* most sections handed to generate_flashcards
MaxSegs == 4
\* largest token count of a section
MaxSize == 3
\* largest number of flashcards asked for
MaxCards == 4
\* most lines of an arbitrary generation response
MaxLines == 3

\* module-level default of the token limit
DEFAULT_TOKEN_LIMIT == 4000

NL == "\n"
SP == " "
Chars == {"a", "b", NL, SP}
Whitespace == {NL, SP}

Documents == UNION {[1..n -> Chars] : n \in 0..MaxLen}
TokenLimits == (-1)..MaxBudget

VARIABLES
    pc,               \* position in main / split_into_sections
    TOKEN_LIMIT,      \* the module-level global
    content,          \* the man page text
    major_sections,   \* result of the initial re.split
    idx,              \* index of the section the for loop is at (1-based)
    current_section,
    refined_sections,
    splits,           \* history: iterations of the while loop performed
    gpc,              \* position in generate_flashcards
    sections,         \* the sections, each given by its token count
    num_cards,
    gi,               \* index of the section the for loop is at (1-based)
    flashcards,
    question,         \* the local variable question, Unbound until assigned
    flashcards_text,  \* the lines of the last generation response
    section_flashcards,
    assigned,         \* history: cards_to_generate of every request issued
    yielded           \* history: len(section_flashcards) of every request

segvars == <<pc, TOKEN_LIMIT, content, major_sections, idx, current_section,
             refined_sections, splits>>

genvars == <<gpc, sections, num_cards, gi, flashcards, question,
             flashcards_text, section_flashcards, assigned, yielded>>

vars == <<segvars, genvars>>

\* ------------------------------------------------------- string functions
count_tokens(text) == Len(text)

\* str.rfind(ch, 0, end): highest 0-based index i < end with s[i] = ch, or -1
rfind(s, ch, end) ==
    LET hits == {i \in 0..(end - 1) : i < Len(s) /\ s[i + 1] = ch}
    IN  IF hits = {} THEN -1 ELSE CHOOSE i \in hits : \A j \in hits : j <= i

\* str.lstrip(): the text without its leading whitespace
RECURSIVE lstrip(_)
lstrip(s) ==
    IF s # <<>> /\ Head(s) \in Whitespace THEN lstrip(Tail(s)) ELSE s

\* s[k:] for a 0-based offset k
SliceFrom(s, k) == SubSeq(s, k + 1, Len(s))
\* s[:k] for a 0-based offset k
SliceTo(s, k) == SubSeq(s, 1, k)

\* number of consecutive line breaks of s starting at 1-based position i
RECURSIVE NLRun(_, _)
NLRun(s, i) ==
    IF i <= Len(s) /\ s[i] = NL THEN 1 + NLRun(s, i + 1) ELSE 0

\* re.split(r'\n\n+', s): cut at every maximal run of two or more line
\* breaks; the pieces before the first and after the last run are kept even
\* when empty
RECURSIVE re_split_from(_, _, _)
re_split_from(s, i, piece) ==
    IF i > Len(s) THEN <<piece>>
    ELSE IF NLRun(s, i) >= 2
         THEN <<piece>> \o re_split_from(s, i + NLRun(s, i), <<>>)
         ELSE re_split_from(s, i + 1, Append(piece, s[i]))

re_split(s) == re_split_from(s, 1, <<>>)

\* ---------------------------------------------------- split_into_sections
\* line 87: current_section + ("\n" if current_section else "") + section
combined_section(cur, section) ==
    cur \o (IF cur # <<>> THEN <<NL>> ELSE <<>>) \o section

\* lines 99-101: the last line break before the midpoint, else the midpoint
split_point(cur) ==
    LET sp == rfind(cur, NL, Len(cur) \div 2)
    IN  IF sp = -1 THEN Len(cur) \div 2 ELSE sp

\* line 102: the section emitted by one iteration of the while loop
SplitHead(cur) == SliceTo(cur, split_point(cur))

SplitRestNoSlice(cur) == lstrip(cur)

SplitRestSkipChar(cur) == lstrip(SliceFrom(cur, split_point(cur) + 1))

\* line 104: what the while loop goes on with
SplitRest(cur) == lstrip(SliceFrom(cur, split_point(cur)))

\* main, lines 240-257: the token limit option overwrites the global, the man
\* page is retrieved and split_into_sections is called on it (line 80)
Main ==
    /\ pc = "main"
    /\ \E token_limit \in TokenLimits, text \in Documents :
          /\ TOKEN_LIMIT' = token_limit
          /\ content' = text
          /\ major_sections' = re_split(text)
    /\ idx' = 1
    /\ current_section' = <<>>
    /\ refined_sections' = <<>>
    /\ pc' = "for"
    /\ UNCHANGED splits
    /\ UNCHANGED genvars

\* lines 86-95: the body of the for loop up to the while loop
JoinSection ==
    /\ pc = "for"
    /\ idx <= Len(major_sections)
    /\ LET section  == major_sections[idx]
           combined == combined_section(current_section, section)
       IN  IF count_tokens(combined) <= TOKEN_LIMIT
           THEN /\ current_section' = combined
                /\ UNCHANGED refined_sections
           ELSE /\ refined_sections' =
                       IF current_section # <<>>
                       THEN Append(refined_sections, current_section)
                       ELSE refined_sections
                /\ current_section' = section
    /\ pc' = "while"
    /\ UNCHANGED <<TOKEN_LIMIT, content, major_sections, idx, splits>>
    /\ UNCHANGED genvars

\* lines 98-104: one iteration of the while loop
SplitLong ==
    /\ pc = "while"
    /\ count_tokens(current_section) > TOKEN_LIMIT
    /\ Len(refined_sections) < MaxSections
    /\ refined_sections' = Append(refined_sections, SplitHead(current_section))
    /\ current_section' = SplitRest(current_section)
    /\ splits' = splits + 1
    /\ UNCHANGED <<pc, TOKEN_LIMIT, content, major_sections, idx>>
    /\ UNCHANGED genvars

\* line 98: the while condition is false, the for loop takes the next section
NextSection ==
    /\ pc = "while"
    /\ count_tokens(current_section) <= TOKEN_LIMIT
    /\ idx' = idx + 1
    /\ pc' = "for"
    /\ UNCHANGED <<TOKEN_LIMIT, content, major_sections, current_section,
                   refined_sections, splits>>
    /\ UNCHANGED genvars

\* lines 106-112: after the for loop
FinishSplit ==
    /\ pc = "for"
    /\ idx > Len(major_sections)
    /\ refined_sections' =
           IF current_section # <<>>
           THEN Append(refined_sections, current_section)
           ELSE refined_sections
    /\ pc' = "done"
    /\ UNCHANGED <<TOKEN_LIMIT, content, major_sections, idx, current_section,
                   splits>>
    /\ UNCHANGED genvars

\* ------------------------------------------------------ generate_flashcards
Unbound == <<"UNBOUND">>

\* A line of a generation response: whether it starts with whitespace, and
\* the marker that follows.  The text after the marker differs from line to
\* line and is named by the position of the line.
LineKinds == [lead : BOOLEAN, marker : {"Question:", "Answer:"}]
                 \cup {[lead |-> FALSE, marker |-> ""]}

QLine == [lead |-> FALSE, marker |-> "Question:"]
ALine == [lead |-> FALSE, marker |-> "Answer:"]

\* responses of arbitrary lines
Responses == UNION {[1..n -> LineKinds] : n \in 0..MaxLines}

\* the response the prompt asks for: k Question:/Answer: pairs
Pairs(k) == [j \in 1..(2 * k) |-> IF j % 2 = 1 THEN QLine ELSE ALine]
\* no card, one card or two cards
PairResponses == {Pairs(0), Pairs(1), Pairs(2)}

\* one section, or two of the same size
ParseSections == {<<1>>, <<1, 1>>}

\* all lists of at most n sections of token counts 1..m
SectionLists(n, m) == UNION {[1..k -> 1..m] : k \in 1..n}

RECURSIVE Sum(_)
Sum(xs) == IF xs = <<>> THEN 0 ELSE Head(xs) + Sum(Tail(xs))

Max(a, b) == IF a >= b THEN a ELSE b
Min(a, b) == IF a <= b THEN a ELSE b

\* round(p / t) for naturals p, t > 0: Python 3 rounds a tie to the even
\* neighbour
round(p, t) ==
    LET f == p \div t
        r == p % t
    IN  IF 2 * r < t THEN f
        ELSE IF 2 * r > t THEN f + 1
        ELSE IF f % 2 = 0 THEN f ELSE f + 1

\* line 121 without the floor of 1
raw_share(section_tokens, total_tokens, n) ==
    round(section_tokens * n, total_tokens)

cards_to_generate_unclamped(section_tokens, total_tokens, n, have) ==
    Max(1, raw_share(section_tokens, total_tokens, n))

cards_to_generate_unfloored(section_tokens, total_tokens, n, have) ==
    LET share == raw_share(section_tokens, total_tokens, n)
    IN  IF have + share > n THEN n - have ELSE share

cards_to_generate_offbyone(section_tokens, total_tokens, n, have) ==
    LET share == Max(1, raw_share(section_tokens, total_tokens, n))
    IN  IF have + share > n THEN n - have + 1 ELSE share

\* lines 121-124: the share of a section, at least 1, cut down to what is
\* missing from the flashcards held so far
cards_to_generate(section_tokens, total_tokens, n, have) ==
    LET share == Max(1, raw_share(section_tokens, total_tokens, n))
    IN  IF have + share > n THEN n - have ELSE share

startswith_stripped(line, marker) == line.marker = marker

\* line.startswith(marker)
startswith(line, marker) == ~line.lead /\ line.marker = marker

\* line 174: '[ai] ' + command + ' - ' + line[9:].strip()
MkQuestion(text) == <<"[ai] ", "command", " - ", text>>

RECURSIVE parse_lines_keep(_, _, _, _, _)
parse_lines_keep(lines, k, i, q, cards) ==
    IF k > Len(lines)
    THEN [question |-> q, cards |-> cards, raised |-> FALSE]
    ELSE IF startswith(lines[k], "Question:")
    THEN parse_lines_keep(lines, k + 1, i,
                          IF q = Unbound THEN MkQuestion(<<i, k>>) ELSE q,
                          cards)
    ELSE IF startswith(lines[k], "Answer:")
    THEN IF q = Unbound
         THEN [question |-> q, cards |-> cards, raised |-> TRUE]
         ELSE parse_lines_keep(lines, k + 1, i, q,
                               Append(cards, <<q, <<i, k>>>>))
    ELSE parse_lines_keep(lines, k + 1, i, q, cards)

\* lines 172-177: the lines from position k on, with the question variable q
\* and the cards found so far; raised when question is read before any
\* assignment to it
RECURSIVE parse_lines(_, _, _, _, _)
parse_lines(lines, k, i, q, cards) ==
    IF k > Len(lines)
    THEN [question |-> q, cards |-> cards, raised |-> FALSE]
    ELSE IF startswith(lines[k], "Question:")
    THEN parse_lines(lines, k + 1, i, MkQuestion(<<i, k>>), cards)
    ELSE IF startswith(lines[k], "Answer:")
    THEN IF q = Unbound
         THEN [question |-> q, cards |-> cards, raised |-> TRUE]
         ELSE parse_lines(lines, k + 1, i, q, Append(cards, <<q, <<i, k>>>>))
    ELSE parse_lines(lines, k + 1, i, q, cards)

\* main, line 261, and lines 116-117
GenStart(lists, quotas) ==
    /\ gpc = "start"
    /\ \E ss \in lists, n \in quotas :
          /\ sections' = ss
          /\ num_cards' = n
    /\ gi' = 1
    /\ flashcards' = <<>>
    /\ gpc' = "loop"
    /\ UNCHANGED <<question, flashcards_text, section_flashcards, assigned,
                   yielded>>
    /\ UNCHANGED segvars

\* lines 119-180: one iteration of the for loop, for a response out of
\* responses
ProcessSection(responses) ==
    /\ gpc = "loop"
    /\ gi <= Len(sections)
    /\ LET ctg == cards_to_generate(sections[gi], Sum(sections), num_cards,
                                    Len(flashcards))
       IN  IF ctg = 0 \/ Len(flashcards) >= num_cards
           THEN /\ gpc' = "return"
                /\ UNCHANGED <<gi, flashcards, question, flashcards_text,
                               section_flashcards, assigned, yielded>>
           ELSE \E text \in responses :
                  LET p == parse_lines(text, 1, gi, question, <<>>)
                  IN  /\ flashcards_text' = text
                      /\ section_flashcards' = p.cards
                      /\ question' = p.question
                      /\ assigned' = Append(assigned, ctg)
                      /\ yielded' = Append(yielded, Len(p.cards))
                      /\ IF p.raised
                         THEN /\ gpc' = "raised"
                              /\ UNCHANGED <<gi, flashcards>>
                         ELSE /\ flashcards' =
                                     flashcards \o
                                     SliceTo(p.cards, Min(ctg, Len(p.cards)))
                              /\ gi' = gi + 1
                              /\ gpc' = "loop"
    /\ UNCHANGED <<sections, num_cards>>
    /\ UNCHANGED segvars

\* lines 182-183, reached by the break of line 127 or when the for loop has
\* gone through every section: return flashcards[:num_cards]
ReturnFlashcards ==
    /\ IF gpc = "loop" THEN gi > Len(sections) ELSE gpc = "return"
    /\ flashcards' = SliceTo(flashcards, Min(num_cards, Len(flashcards)))
    /\ gpc' = "done"
    /\ UNCHANGED <<sections, num_cards, gi, question, flashcards_text,
                   section_flashcards, assigned, yielded>>
    /\ UNCHANGED segvars

\* ------------------------------------------------- segmentation properties
HasLineBreak(s) == \E i \in DOMAIN s : s[i] = NL

\* the text with every whitespace character removed
RECURSIVE StripWs(_)
StripWs(s) ==
    IF s = <<>> THEN <<>>
    ELSE IF Head(s) \in Whitespace THEN StripWs(Tail(s))
         ELSE <<Head(s)>> \o StripWs(Tail(s))

\* the concatenation of a sequence of texts
RECURSIVE Flatten(_)
Flatten(ss) == IF ss = <<>> THEN <<>> ELSE Head(ss) \o Flatten(Tail(ss))

\* C1: with a budget b >= 1, every emitted section has size <= b unless it is
\* a single line (no line break in it) whose size exceeds b.
C1_SegmentsWithinBudget ==
    TOKEN_LIMIT >= 1 =>
        \A i \in DOMAIN refined_sections :
            \/ count_tokens(refined_sections[i]) <= TOKEN_LIMIT
            \/ ~HasLineBreak(refined_sections[i])

\* C8: for a non-empty document and a budget b >= 1, the returned sections,
\* concatenated in order and with all whitespace removed, are the document
\* with all whitespace removed.
C8_ContentPreserved ==
    (pc = "done" /\ TOKEN_LIMIT >= 1 /\ content # <<>>) =>
        StripWs(Flatten(refined_sections)) = StripWs(content)

\* C8's case: a document of several major sections, none with a line break
\* of its own, has been returned; the while loop split one of them and two
\* were joined (a returned section holds the line break of the join).
C8_Witness ==
    /\ pc = "done"
    /\ TOKEN_LIMIT >= 1
    /\ Len(major_sections) >= 2
    /\ \A j \in DOMAIN major_sections : ~HasLineBreak(major_sections[j])
    /\ splits >= 1
    /\ \E i \in DOMAIN refined_sections : HasLineBreak(refined_sections[i])
    /\ Len(StripWs(content)) >= 3

\* how far split_into_sections is from returning: the sections the for loop
\* has still to take, then the length of the section the while loop works on
Rank ==
    LET W    == Len(content) + 2
        left == Len(major_sections) + 1 - idx
    IN  IF pc = "done" THEN 0
        ELSE IF pc = "for" THEN (left + 1) * W
        ELSE left * W + Len(current_section) + 1

\* C9: with a budget b >= 1 every iteration of the while loop strictly
\* shortens the current section; every step of split_into_sections brings it
\* nearer to its return (Rank falls and stays a natural number), and until it
\* has returned there is a step to take: it is never stuck and it raises
\* nothing.  So it returns, on every document.
C9_Terminates ==
    /\ [][(SplitLong /\ TOKEN_LIMIT >= 1) =>
              Len(current_section') < Len(current_section)]_vars
    /\ [][(pc \in {"for", "while"} /\ TOKEN_LIMIT >= 1) =>
              (Rank' < Rank /\ Rank' >= 0)]_vars
    /\ []((pc \in {"for", "while"} /\ TOKEN_LIMIT >= 1) =>
              ENABLED (JoinSection \/ SplitLong \/ NextSection \/ FinishSplit))

\* C9's case: one giant line (no line break at all) went through the while
\* loop several times and the function returned.
C9_Witness ==
    /\ pc = "done"
    /\ TOKEN_LIMIT >= 1
    /\ ~HasLineBreak(content)
    /\ splits >= 2

\* C10: with a token limit <= 0 no section is emitted and the while loop is
\* never entered.
C10_InvalidBudgetRejected ==
    TOKEN_LIMIT <= 0 => (refined_sections = <<>> /\ splits = 0)


\* --------------------------------------------------- allocation properties
\* the quota of section i, 0 for a section the loop did not reach
QuotaOf(i) == IF i \in DOMAIN assigned THEN assigned[i] ELSE 0

\* every response so far held exactly as many cards as were asked for
ExactYield == \A k \in DOMAIN assigned : yielded[k] = assigned[k]

\* no response so far held fewer cards than were asked for
FullYield == \A k \in DOMAIN assigned : yielded[k] >= assigned[k]

\* the cards kept from the first j requests
RECURSIVE Kept(_)
Kept(j) == IF j = 0 THEN 0 ELSE Kept(j - 1) + Min(yielded[j], assigned[j])

\* C2: with q >= n and every response holding exactly the cards asked for,
\* the quotas of the sections sum to exactly q.
C2_QuotaSumsToTotal ==
    (gpc = "done" /\ num_cards >= Len(sections) /\ ExactYield) =>
        Sum(assigned) = num_cards

\* C3 as stated: whatever the responses hold, the sum of the quotas assigned
\* so far never exceeds q.
C3_AssignedWithinTotal == Sum(assigned) <= num_cards

\* C3 as amended: whatever the responses hold, the cards kept so far plus the
\* quota of the next section never exceed q (the quota is cut down against
\* the cards held, not against the quotas assigned); the sum of the quotas
\* stays within q as long as no response held fewer cards than asked for.
C3_HeldPlusQuotaWithinTotal ==
    /\ \A k \in DOMAIN assigned : Kept(k - 1) + assigned[k] <= num_cards
    /\ gpc \in {"loop", "return"} => Len(flashcards) = Kept(Len(assigned))
    /\ FullYield => Sum(assigned) <= num_cards

\* C3's case: a response held fewer cards than asked for, and a later quota
\* was cut down below the section's share.
C3_Witness ==
    /\ Len(assigned) >= 2
    /\ yielded[1] < assigned[1]
    /\ \E k \in DOMAIN assigned :
          /\ k >= 2
          /\ assigned[k] <
                 Max(1, raw_share(sections[k], Sum(sections), num_cards))
    /\ Sum(assigned) > num_cards

\* C4: with q >= n (and every response holding exactly the cards asked for)
\* every section gets a quota of at least 1.
C4_EverySectionServed ==
    (gpc = "done" /\ num_cards >= Len(sections) /\ ExactYield) =>
        \A i \in DOMAIN sections : QuotaOf(i) >= 1

\* the quotas are 1 for the first q sections and 0 for the others
FirstQGetOne ==
    \A i \in DOMAIN sections : QuotaOf(i) = IF i <= num_cards THEN 1 ELSE 0

\* C5 as stated: with n > q > 0 (and every response holding exactly the cards
\* asked for) the first q sections get exactly 1 and the others 0.
C5_FirstQGetOne ==
    (/\ gpc = "done"
     /\ Len(sections) > num_cards
     /\ num_cards > 0
     /\ ExactYield) => FirstQGetOne

\* C5 as amended: the same, for sections none of which has a rounded
\* proportional share above 1.
C5_FirstQGetOneSmallShares ==
    (/\ gpc = "done"
     /\ Len(sections) > num_cards
     /\ num_cards > 0
     /\ ExactYield
     /\ \A i \in DOMAIN sections :
           raw_share(sections[i], Sum(sections), num_cards) <= 1)
        => FirstQGetOne

\* C5's case: more sections, of different sizes, than cards; the cards went
\* to the first sections.
C5_Witness ==
    /\ gpc = "done"
    /\ Len(sections) > num_cards
    /\ num_cards >= 2
    /\ ExactYield
    /\ \E i, j \in DOMAIN sections : sections[i] # sections[j]
    /\ \A i \in DOMAIN sections :
          raw_share(sections[i], Sum(sections), num_cards) <= 1
    /\ Len(assigned) = num_cards
    /\ Len(flashcards) = num_cards

\* ------------------------------------------------------- parser properties
QuestionLines(text) ==
    {k \in DOMAIN text : text[k].marker = "Question:"}

\* C6: a response never gives more cards than it has Question: lines, and no
\* question is paired with two answers.
C6_AnswerNeedsFreshQuestion ==
    /\ Len(section_flashcards) <= Cardinality(QuestionLines(flashcards_text))
    /\ \A a, b \in DOMAIN section_flashcards :
          a # b => section_flashcards[a][1] # section_flashcards[b][1]

\* C7: parsing never fails, whatever the lines are.
C7_ParserNeverFails == gpc # "raised"

\* the response (section index) the question, resp. the answer, of a card
\* was read from, and the line of the answer
QuestionFrom(card) == card[1][4][1]
AnswerFrom(card) == card[2][1]
AnswerLine(card) == card[2][2]

\* C11: a card never pairs a Question: line of one response with an Answer:
\* line of a later response: every parse starts with no pending prompt.
C11_NoPairingAcrossResponses ==
    \A r \in DOMAIN section_flashcards :
        QuestionFrom(section_flashcards[r]) = AnswerFrom(section_flashcards[r])

\* the step is a parse of a response, and what it leaves is what parsing
\* text leaves (the section index and the question variable being those
\* before the step)
ParsedAs(text) ==
    LET p == parse_lines(text, 1, gi, question, <<>>)
    IN  /\ section_flashcards' = p.cards
        /\ question' = p.question
        /\ (gpc' = "raised") = p.raised

\* the response with the leading whitespace of every line removed
Unindented(text) ==
    [k \in DOMAIN text |-> [lead |-> FALSE, marker |-> text[k].marker]]

\* the response with every line that starts with whitespace replaced by a
\* line without a marker
Unmarked(text) ==
    [k \in DOMAIN text |->
        IF text[k].lead THEN [lead |-> FALSE, marker |-> ""] ELSE text[k]]

\* C12 as stated: a response is parsed as the same response without the
\* leading whitespace of its lines.
C12_LeadingWhitespaceStripped ==
    [][assigned' # assigned => ParsedAs(Unindented(flashcards_text'))]_vars

\* C12 as amended: the markers are matched at the very start of the line, so
\* a line with whitespace before Question: or Answer: is parsed as a line
\* without a marker: it sets no prompt and gives no card.
C12_IndentedMarkerIgnored ==
    [][assigned' # assigned => ParsedAs(Unmarked(flashcards_text'))]_vars

\* C12's case: after a Question: line, an Answer: line with leading whitespace
\* gave no card while a later Answer: line did.
C12_Witness ==
    /\ gpc = "loop"
    /\ \E j, k \in DOMAIN flashcards_text :
          /\ j < k
          /\ startswith(flashcards_text[j], "Question:")
          /\ flashcards_text[k].lead
          /\ flashcards_text[k].marker = "Answer:"
          /\ \A r \in DOMAIN section_flashcards :
                AnswerLine(section_flashcards[r]) # k
    /\ Len(section_flashcards) >= 1

\* the lines of text before line k that the parser takes for Question: lines
QuestionsBefore(text, k) ==
    {j \in DOMAIN text : j < k /\ startswith(text[j], "Question:")}

Last(S) == CHOOSE j \in S : \A m \in S : m <= j

\* C13: a Question: line replaces the pending prompt: every card of a
\* response pairs its Answer: line with the last Question: line before it
\* (with the prompt left by the responses before, when the response has none
\* before it), and a Question: line followed by another Question: line with no
\* Answer: line between them is in no card.
C13_LatestQuestionWins ==
    [][assigned' # assigned =>
          /\ \A r \in DOMAIN section_flashcards' :
                LET card == section_flashcards'[r]
                    qs   == QuestionsBefore(flashcards_text', AnswerLine(card))
                IN  card[1] = IF qs = {} THEN question
                              ELSE MkQuestion(<<gi, Last(qs)>>)
          /\ \A j, m \in DOMAIN flashcards_text' :
                (/\ j < m
                 /\ startswith(flashcards_text'[j], "Question:")
                 /\ startswith(flashcards_text'[m], "Question:")
                 /\ \A a \in (j + 1)..(m - 1) :
                       ~startswith(flashcards_text'[a], "Answer:"))
                => \A r \in DOMAIN section_flashcards' :
                      section_flashcards'[r][1] # MkQuestion(<<gi, j>>)
    ]_vars

\* C13's case: two Question: lines, then an Answer: line; the card holds the
\* second question.
C13_Witness ==
    /\ gpc = "loop"
    /\ Len(flashcards_text) >= 3
    /\ startswith(flashcards_text[1], "Question:")
    /\ startswith(flashcards_text[2], "Question:")
    /\ startswith(flashcards_text[3], "Answer:")
    /\ \E r \in DOMAIN section_flashcards :
          /\ AnswerLine(section_flashcards[r]) = 3
          /\ section_flashcards[r][1] =
                 MkQuestion(<<AnswerFrom(section_flashcards[r]), 2>>)

\* the cards held that came from the response for section i
CardsFrom(i) == {r \in DOMAIN flashcards : AnswerFrom(flashcards[r]) = i}

\* C14: whatever the responses hold, the cards held never number more than
\* num_cards, every section contributes at most its quota, the cards are in
\* the order of the sections (and of the lines within a response), and no
\* request is issued once num_cards cards are held (none at all when
\* num_cards = 0).
C14_AccumulationBounded ==
    /\ [](/\ Len(flashcards) <= num_cards
          /\ \A i \in DOMAIN assigned : Cardinality(CardsFrom(i)) <= assigned[i]
          /\ \A r \in DOMAIN flashcards : AnswerFrom(flashcards[r]) \in DOMAIN assigned
          /\ \A r, t \in DOMAIN flashcards :
                r < t =>
                    \/ AnswerFrom(flashcards[r]) < AnswerFrom(flashcards[t])
                    \/ /\ AnswerFrom(flashcards[r]) = AnswerFrom(flashcards[t])
                       /\ AnswerLine(flashcards[r]) < AnswerLine(flashcards[t])
          /\ num_cards = 0 => assigned = <<>>)
    /\ [][assigned' # assigned =>
              (Len(flashcards) < num_cards /\ assigned'[Len(assigned')] >= 1)]_vars

\* C14's case: two responses were parsed, one held more cards than its quota,
\* and exactly num_cards cards, from both responses, were returned.
C14_Witness ==
    /\ gpc = "done"
    /\ Len(assigned) = 2
    /\ \E k \in DOMAIN assigned : yielded[k] > assigned[k]
    /\ CardsFrom(1) # {}
    /\ CardsFrom(2) # {}
    /\ Len(flashcards) = num_cards

GenIdle ==
    /\ sections = <<>>
    /\ num_cards = 0
    /\ gi = 1
    /\ flashcards = <<>>
    /\ question = Unbound
    /\ flashcards_text = <<>>
    /\ section_flashcards = <<>>
    /\ assigned = <<>>
    /\ yielded = <<>>

SegIdle ==
    /\ TOKEN_LIMIT = DEFAULT_TOKEN_LIMIT
    /\ content = <<>>
    /\ major_sections = <<>>
    /\ idx = 1
    /\ current_section = <<>>
    /\ refined_sections = <<>>
    /\ splits = 0

Init ==
    /\ gpc = "idle"
    /\ pc = "main"
    /\ TOKEN_LIMIT = DEFAULT_TOKEN_LIMIT
    /\ content = <<>>
    /\ major_sections = <<>>
    /\ idx = 1
    /\ current_section = <<>>
    /\ refined_sections = <<>>
    /\ splits = 0
    /\ GenIdle

Next ==
    \/ Main
    \/ JoinSection
    \/ SplitLong
    \/ NextSection
    \/ FinishSplit

Spec == Init /\ [][Next]_vars

\* generate_flashcards alone, on sections of any sizes, every response being
\* some number of well-formed Question:/Answer: pairs
AllocInit ==
    /\ pc = "idle"
    /\ gpc = "start"
    /\ SegIdle
    /\ GenIdle

AllocNext ==
    \/ GenStart(SectionLists(MaxSegs, MaxSize), 0..MaxCards)
    \/ ProcessSection(PairResponses)
    \/ ReturnFlashcards

AllocSpec == AllocInit /\ [][AllocNext]_vars

\* generate_flashcards alone, on a few sections, the responses being arbitrary
\* lines
ParseNext ==
    \/ GenStart(ParseSections, 0..MaxLines)
    \/ ProcessSection(Responses)
    \/ ReturnFlashcards

ParseSpec == AllocInit /\ [][ParseNext]_vars

====
